---- MODULE Spec2Model ----
(***************************************************************************)
(* SAML callback correlation and dispatch of the identity server:          *)
(*   - selfservice/strategy/saml/strategy/strategy.go, package strategy:   *)
(*     handleCallback, getAttributesFromAssertion, forwardError,           *)
(*     validateFlow, validateCallback;                                     *)
(*   - the same file, package saml: the lazily built process-wide engine   *)
(*     handle (samlMiddleware), submitMetadata, loginWithIdp,              *)
(*     instantiateMiddleware, GetMiddleware;                               *)
(*   - selfservice/flow/saml/handler.go: the handler that owns its engine  *)
(*     from construction, loginWithIdp and serveAcs.                       *)
(* Every request is served by its own goroutine; a request is a slot of    *)
(* Requests with a program counter.  The steps of a handler are split at   *)
(* the reads and writes of shared state (the engine handle, the            *)
(* continuation token of a browser context).                               *)
(***************************************************************************)
EXTENDS Integers, Sequences, FiniteSets, TLC

\* Number of request slots (goroutines) of a run.
NumRequests == 2

Requests == 1..NumRequests

\* Browser contexts (cookie jars).  b1 goes through self-service flows; b2 is
\* a browser that never started one and only ever posts to the callback.
Contexts == {"b1", "b2"}
Initiators == {"b1"}

----------------------------------------------------------------------------
\* Errors.
NoErr == "nil"
ErrProtocol == "ProtocolError"
ErrConfiguration == "ConfigurationError"
ErrClaimsMapping == "ClaimsMappingError"
ErrCorrelation == "CorrelationError"
ErrBadRequest == "BadRequest: invalid flow id"
ErrAPIFlowNotSupported == "ErrAPIFlowNotSupported"
ErrFlowExpired == "FlowExpired"
ErrNoActiveSessionFound == "ErrNoActiveSessionFound"
ErrSessionOther == "SessionLookupError"
ErrSessionMismatch == "SessionMismatch"
ErrNotFound == "sqlcon.ErrNoRows"
ErrCompletion == "CompletionError"
ErrConstruction == "ConstructionError"
\* The error validateCallback builds from the query parameters error and
\* error_description.
ErrProviderReturned(code, desc) ==
    "Unable to complete OpenID Connect flow because the OpenID Provider returned error \"" \o code \o "\": " \o desc

----------------------------------------------------------------------------
\* Flows.  A flow.Flow interface value is a record; type "nil" is the nil
\* interface, ptr FALSE is a typed nil pointer inside a non-nil interface.
NilFlow == [type |-> "nil", ptr |-> FALSE, id |-> 0, mode |-> "none",
            expired |-> FALSE, owner |-> "none"]

MkFlow(t, i, m, e, o) == [type |-> t, ptr |-> TRUE, id |-> i, mode |-> m,
                          expired |-> e, owner |-> o]

\* (*settings.Flow)(nil) converted to flow.Flow.
NilSettingsPtr == [NilFlow EXCEPT !.type = "settings"]

ZeroUUID == 0

\* The flow ids of the run; 5 is a well-formed id that no store holds.
FlowIDs == 1..5

\* x.ParseUUID: uuid.FromStringOrNil.
ParseUUID(s) ==
    CASE s = "f1" -> 1
      [] s = "f2" -> 2
      [] s = "f3" -> 3
      [] s = "f4" -> 4
      [] s = "f5" -> 5
      [] OTHER -> ZeroUUID

x_IsZeroUUID(rid) == rid = ZeroUUID

\* authCodeContainer.Traits when nothing was staged.
NoTraits == "null"

\* Sessions a request may carry.
NoSession == "none"
Sessions == {NoSession, "alice", "bob"}

VARIABLES
    samlMiddleware,   \* package saml: the global engine handle, 0 = nil
    constructions,    \* number of instantiateMiddleware runs started
    kind,             \* the handler a request slot runs
    pc,               \* its position
    ctx,              \* its browser context
    mine,             \* the engine object its instantiateMiddleware builds
    m,                \* handleCallback's copy of the engine
    sawUnset,         \* it found the global handle nil at its check
    raced,            \* an engine was published by another goroutine while it ran
    used,             \* engine operations it invoked: <<op, handle>>
    resp,             \* what it wrote to its http.ResponseWriter, in order
    stage,            \* dispatcher stage of a callback request
    ran,              \* the steps it executed, in order
    vc,               \* what its validateCallback returned
    token,            \* continuity container of each browser context
    regFlows, loginFlows, settingsFlows,  \* the three flow stores
    reqSession,       \* the session an initiation request's lookup was made with
    fn                \* the last direct call of a function: name, arguments, result

vars == <<samlMiddleware, constructions, kind, pc, ctx, mine, m, sawUnset, raced, used,
          resp, stage, ran, vc, token,
          regFlows, loginFlows, settingsFlows, reqSession, fn>>

reqVars == <<kind, pc, ctx, mine, m, sawUnset, raced, used, resp, stage, ran, vc, reqSession>>
engineVars == <<samlMiddleware, constructions>>
storeVars == <<regFlows, loginFlows, settingsFlows>>

----------------------------------------------------------------------------
\* The flow persisters (external stores): a lookup is a hit or ErrNoRows.
GetRegistrationFlow(rid) ==
    IF rid \notin DOMAIN regFlows \/ regFlows[rid].type = "nil"
    THEN [flow |-> NilFlow, err |-> ErrNotFound]
    ELSE [flow |-> regFlows[rid], err |-> NoErr]

GetLoginFlow(rid) ==
    IF rid \notin DOMAIN loginFlows \/ loginFlows[rid].type = "nil"
    THEN [flow |-> NilFlow, err |-> ErrNotFound]
    ELSE [flow |-> loginFlows[rid], err |-> NoErr]

\* On a miss the settings persister returns a nil *settings.Flow.
GetSettingsFlow(rid) ==
    IF rid \notin DOMAIN settingsFlows \/ settingsFlows[rid].type = "nil"
    THEN [flow |-> NilSettingsPtr, err |-> ErrNotFound]
    ELSE [flow |-> settingsFlows[rid], err |-> NoErr]

\* login.Flow.Valid / registration.Flow.Valid: the flow's own expiry check.
Flow_Valid(f) == IF f.expired THEN ErrFlowExpired ELSE NoErr

\* settings.Flow.Valid(sess): expiry, and the session's identity owns the flow.
SettingsFlow_Valid(f, sess) ==
    IF f.expired THEN ErrFlowExpired
    ELSE IF f.owner # sess THEN ErrSessionMismatch
    ELSE NoErr

\* session.Manager.FetchFromRequest on a request that carries session s.
SessionBroken == "broken"
FetchFromRequest(s) ==
    IF s = NoSession THEN [sess |-> NoSession, err |-> ErrNoActiveSessionFound]
    ELSE IF s = SessionBroken THEN [sess |-> NoSession, err |-> ErrSessionOther]
    ELSE [sess |-> s, err |-> NoErr]

RequestSessions == Sessions \cup {SessionBroken}

\* validateFlow, the arm of a flow found in the registration store.
validateFlow_registration(ar) ==
    [flow |-> ar,
     err |-> IF ar.mode # "browser" THEN ErrAPIFlowNotSupported ELSE Flow_Valid(ar),
     probes |-> <<"registration">>]

\* validateFlow, the arm of a flow found in the login store.
validateFlow_login(ar) ==
    [flow |-> ar,
     err |-> IF ar.mode # "browser" THEN ErrAPIFlowNotSupported ELSE Flow_Valid(ar),
     probes |-> <<"registration", "login">>]

\* validateFlow, the arm of a flow found in the settings store, on a request
\* that carries session s.
validateFlow_settings(ar, s) ==
    LET fs == FetchFromRequest(s) IN
    IF ar.mode # "browser"
    THEN [flow |-> ar, err |-> ErrAPIFlowNotSupported,
          probes |-> <<"registration", "login", "settings">>]
    ELSE IF fs.err # NoErr
    THEN [flow |-> ar, err |-> fs.err,
          probes |-> <<"registration", "login", "settings", "session">>]
    ELSE [flow |-> ar, err |-> SettingsFlow_Valid(ar, fs.sess),
          probes |-> <<"registration", "login", "settings", "session">>]

\* validateFlow, the last return: what the settings store returned on a miss.
validateFlow_miss(st) ==
    [flow |-> st.flow, err |-> st.err, probes |-> <<"registration", "login", "settings">>]

\* validateFlow whose settings arm validates the flow against the session
\* without looking at the error of the session lookup.
validateFlow_IgnoresLookupError(rid, s) ==
    IF x_IsZeroUUID(rid)
    THEN [flow |-> NilFlow, err |-> ErrBadRequest, probes |-> <<>>]
    ELSE IF GetRegistrationFlow(rid).err = NoErr
    THEN validateFlow_registration(GetRegistrationFlow(rid).flow)
    ELSE IF GetLoginFlow(rid).err = NoErr
    THEN validateFlow_login(GetLoginFlow(rid).flow)
    ELSE IF GetSettingsFlow(rid).err = NoErr
    THEN [validateFlow_settings(GetSettingsFlow(rid).flow, s) EXCEPT
              !.err = IF GetSettingsFlow(rid).flow.mode # "browser"
                      THEN ErrAPIFlowNotSupported
                      ELSE SettingsFlow_Valid(GetSettingsFlow(rid).flow,
                                              FetchFromRequest(s).sess)]
    ELSE validateFlow_miss(GetSettingsFlow(rid))

\* validateFlow whose registration and login arms call Valid before they
\* look at the execution mode.
validateFlow_ValidFirst(rid, s) ==
    IF x_IsZeroUUID(rid)
    THEN [flow |-> NilFlow, err |-> ErrBadRequest, probes |-> <<>>]
    ELSE IF GetRegistrationFlow(rid).err = NoErr
    THEN [validateFlow_registration(GetRegistrationFlow(rid).flow) EXCEPT
              !.err = IF Flow_Valid(GetRegistrationFlow(rid).flow) # NoErr
                      THEN Flow_Valid(GetRegistrationFlow(rid).flow) ELSE @]
    ELSE IF GetLoginFlow(rid).err = NoErr
    THEN [validateFlow_login(GetLoginFlow(rid).flow) EXCEPT
              !.err = IF Flow_Valid(GetLoginFlow(rid).flow) # NoErr
                      THEN Flow_Valid(GetLoginFlow(rid).flow) ELSE @]
    ELSE IF GetSettingsFlow(rid).err = NoErr
    THEN validateFlow_settings(GetSettingsFlow(rid).flow, s)
    ELSE validateFlow_miss(GetSettingsFlow(rid))

\* validateFlow that does not probe the login store.
validateFlow_SkipsLogin(rid, s) ==
    IF x_IsZeroUUID(rid)
    THEN [flow |-> NilFlow, err |-> ErrBadRequest, probes |-> <<>>]
    ELSE IF GetRegistrationFlow(rid).err = NoErr
    THEN validateFlow_registration(GetRegistrationFlow(rid).flow)
    ELSE IF GetSettingsFlow(rid).err = NoErr
    THEN validateFlow_settings(GetSettingsFlow(rid).flow, s)
    ELSE validateFlow_miss(GetSettingsFlow(rid))

\* validateFlow whose last return drops the error of the settings store.
validateFlow_MissNoError(rid, s) ==
    IF x_IsZeroUUID(rid)
    THEN [flow |-> NilFlow, err |-> ErrBadRequest, probes |-> <<>>]
    ELSE IF GetRegistrationFlow(rid).err = NoErr
    THEN validateFlow_registration(GetRegistrationFlow(rid).flow)
    ELSE IF GetLoginFlow(rid).err = NoErr
    THEN validateFlow_login(GetLoginFlow(rid).flow)
    ELSE IF GetSettingsFlow(rid).err = NoErr
    THEN validateFlow_settings(GetSettingsFlow(rid).flow, s)
    ELSE [validateFlow_miss(GetSettingsFlow(rid)) EXCEPT !.err = NoErr]

\* validateFlow without the test of the zero id.
validateFlow_NoZeroCheck(rid, s) ==
    IF GetRegistrationFlow(rid).err = NoErr
    THEN validateFlow_registration(GetRegistrationFlow(rid).flow)
    ELSE IF GetLoginFlow(rid).err = NoErr
    THEN validateFlow_login(GetLoginFlow(rid).flow)
    ELSE IF GetSettingsFlow(rid).err = NoErr
    THEN validateFlow_settings(GetSettingsFlow(rid).flow, s)
    ELSE validateFlow_miss(GetSettingsFlow(rid))

\* Strategy.validateFlow: (flow, err), and the lookups it made, in order.
validateFlow(rid, s) ==
    IF x_IsZeroUUID(rid)
    THEN [flow |-> NilFlow, err |-> ErrBadRequest, probes |-> <<>>]
    ELSE IF GetRegistrationFlow(rid).err = NoErr
    THEN validateFlow_registration(GetRegistrationFlow(rid).flow)
    ELSE IF GetLoginFlow(rid).err = NoErr
    THEN validateFlow_login(GetLoginFlow(rid).flow)
    ELSE IF GetSettingsFlow(rid).err = NoErr
    THEN validateFlow_settings(GetSettingsFlow(rid).flow, s)
    ELSE validateFlow_miss(GetSettingsFlow(rid))

----------------------------------------------------------------------------
\* Continuation tokens.
\* authCodeContainer; ptr FALSE is the nil *authCodeContainer.
NilCntnr == [ptr |-> FALSE, flow_id |-> "", traits |-> NoTraits]
MkCntnr(f, t) == [ptr |-> TRUE, flow_id |-> f, traits |-> t]

\* The continuity container bound to a browser context; uses counts the
\* successful Continue calls on it.
AbsentToken == [state |-> "absent", flow_id |-> "", traits |-> NoTraits, uses |-> 0]

\* continuity.Manager.Continue with the payload decoded into cntnr: succeeds
\* on a present, intact, unconsumed container only.
Continue(tok) ==
    IF tok.state = "valid"
    THEN [cntnr |-> MkCntnr(tok.flow_id, tok.traits), err |-> NoErr]
    ELSE [cntnr |-> MkCntnr("", NoTraits), err |-> ErrCorrelation]

\* The container after Continue: a container that was used is deleted.
AfterContinue(tok) ==
    IF tok.state = "valid"
    THEN [AbsentToken EXCEPT !.state = "consumed", !.uses = tok.uses + 1]
    ELSE tok

\* Query parameters of a callback request.
Queries == {[error |-> "", error_description |-> ""],
            [error |-> "access_denied", error_description |-> "user cancelled"]}

\* validateCallback without the early return on the error of Continue.
validateCallback_IgnoresContinueError(tok, q, s) ==
    LET cont == Continue(tok)
        req  == validateFlow(ParseUUID(cont.cntnr.flow_id), s)
    IN
    IF req.err # NoErr
    THEN [flow |-> NilFlow, cntnr |-> cont.cntnr, err |-> req.err,
          probes |-> req.probes]
    ELSE [flow |-> req.flow, cntnr |-> cont.cntnr, err |-> NoErr,
          probes |-> req.probes]

\* validateCallback whose first return hands back &cntnr, as its second does.
validateCallback_ReturnsCntnr(tok, q, s) ==
    LET cont == Continue(tok)
        req  == validateFlow(ParseUUID(cont.cntnr.flow_id), s)
    IN
    IF cont.err # NoErr \/ req.err # NoErr
    THEN [flow |-> NilFlow, cntnr |-> cont.cntnr,
          err |-> IF cont.err # NoErr THEN cont.err ELSE req.err,
          probes |-> IF cont.err # NoErr THEN <<>> ELSE req.probes]
    ELSE IF q.error # ""
    THEN [flow |-> req.flow, cntnr |-> cont.cntnr,
          err |-> ErrProviderReturned(q.error, q.error_description),
          probes |-> req.probes]
    ELSE [flow |-> req.flow, cntnr |-> cont.cntnr, err |-> NoErr,
          probes |-> req.probes]

\* validateCallback that looks at the error parameter before the error of
\* validateFlow.
validateCallback_ErrorParamFirst(tok, q, s) ==
    LET cont == Continue(tok)
        req  == validateFlow(ParseUUID(cont.cntnr.flow_id), s)
    IN
    IF cont.err # NoErr
    THEN [flow |-> NilFlow, cntnr |-> NilCntnr, err |-> cont.err, probes |-> <<>>]
    ELSE IF q.error # ""
    THEN [flow |-> req.flow, cntnr |-> cont.cntnr,
          err |-> ErrProviderReturned(q.error, q.error_description),
          probes |-> req.probes]
    ELSE IF req.err # NoErr
    THEN [flow |-> NilFlow, cntnr |-> cont.cntnr, err |-> req.err,
          probes |-> req.probes]
    ELSE [flow |-> req.flow, cntnr |-> cont.cntnr, err |-> NoErr,
          probes |-> req.probes]

\* Strategy.validateCallback on the container tok, query q, session s:
\* (flow, cntnr, err) and the lookups made.
validateCallback(tok, q, s) ==
    LET cont == Continue(tok)
        req  == validateFlow(ParseUUID(cont.cntnr.flow_id), s)
    IN
    IF cont.err # NoErr
    THEN [flow |-> NilFlow, cntnr |-> NilCntnr, err |-> cont.err, probes |-> <<>>]
    ELSE IF req.err # NoErr
    THEN [flow |-> NilFlow, cntnr |-> cont.cntnr, err |-> req.err,
          probes |-> req.probes]
    ELSE IF q.error # ""
    THEN [flow |-> req.flow, cntnr |-> cont.cntnr,
          err |-> ErrProviderReturned(q.error, q.error_description),
          probes |-> req.probes]
    ELSE [flow |-> req.flow, cntnr |-> cont.cntnr, err |-> NoErr,
          probes |-> req.probes]

----------------------------------------------------------------------------
Last(q) == q[Len(q)]

\* Responses.  An entry of resp is one write to the http.ResponseWriter.
Write(by, f, e) == [by |-> by, flow |-> f, err |-> e]

\* forwardError whose default arm goes to the registration error handler.
forwardError_DefaultRegistration(f, e) ==
    IF f.type = "login" THEN [by |-> "LoginFlowErrorHandler", flow |-> f, err |-> e]
    ELSE [by |-> "RegistrationFlowErrorHandler", flow |-> f, err |-> e]

\* Strategy.forwardError: the flow error handler that renders err, and the
\* flow it is given.
forwardError(f, e) ==
    IF f.type = "login" THEN Write("LoginFlowErrorHandler", f, e)
    ELSE IF f.type = "registration" THEN Write("RegistrationFlowErrorHandler", f, e)
    ELSE Write("LoginFlowErrorHandler", NilFlow, e)

\* An engine operation invoked on handle h; whole: the goroutine saw every
\* field instantiateMiddleware wrote to that engine.
Call(op, h, whole) == [op |-> op, h |-> h, whole |-> whole]

\* The engine that flow/saml.NewHandler builds before any route exists.
HandlerMiddleware == 100

\* What validateCallback returned to a request; seen is the container it
\* found.
NoVC == [called |-> FALSE, seen |-> AbsentToken, flow |-> NilFlow,
         cntnr |-> NilCntnr, err |-> NoErr, probes |-> <<>>]

Seen(tok) == [tok EXCEPT !.uses = 0]

\* The flows of the run: 1 registration, 2 login, 3 settings (owned by
\* alice), 4 a login flow of an API client; 5 is held by no store.
InitRegFlows ==
    [i \in FlowIDs |-> IF i = 1 THEN MkFlow("registration", 1, "browser", FALSE, "none")
                       ELSE NilFlow]
InitLoginFlows ==
    [i \in FlowIDs |-> IF i = 2 THEN MkFlow("login", 2, "browser", FALSE, "none")
                       ELSE IF i = 4 THEN MkFlow("login", 4, "api", FALSE, "none")
                       ELSE NilFlow]
InitSettingsFlows ==
    [i \in FlowIDs |-> IF i = 3 THEN MkFlow("settings", 3, "browser", FALSE, "alice")
                       ELSE NilFlow]

\* The payloads the self-service flows stage before the redirect to the IDP.
Payloads == {MkCntnr("f1", "{email}"), MkCntnr("f2", NoTraits), MkCntnr("f3", NoTraits),
             MkCntnr("f4", NoTraits), MkCntnr("f5", NoTraits), MkCntnr("", NoTraits)}

\* The handlers of the callback side, and those that touch the singleton.
DispatchKinds == {"handleCallback", "flow_serveAcs"}
EngineKinds == {"submitMetadata", "loginWithIdp", "flow_loginWithIdp", "handleCallback"}

\* No session lookup made yet; no function called directly.
NoLookup == "no lookup"
NoCall == [op |-> "none", arg |-> <<>>, out |-> <<>>, done |-> FALSE]

\* No request is being served.
InitSlots ==
    /\ kind = [r \in Requests |-> "none"]
    /\ pc = [r \in Requests |-> "idle"]
    /\ ctx = [r \in Requests |-> "b1"]
    /\ mine = [r \in Requests |-> 0]
    /\ m = [r \in Requests |-> 0]
    /\ sawUnset = [r \in Requests |-> FALSE]
    /\ raced = [r \in Requests |-> FALSE]
    /\ used = [r \in Requests |-> <<>>]
    /\ resp = [r \in Requests |-> <<>>]
    /\ stage = [r \in Requests |-> "none"]
    /\ ran = [r \in Requests |-> <<>>]
    /\ vc = [r \in Requests |-> NoVC]
    /\ reqSession = [r \in Requests |-> NoLookup]

InitRequests ==
    /\ InitSlots
    /\ token = [c \in Contexts |-> AbsentToken]
    /\ regFlows = InitRegFlows
    /\ loginFlows = InitLoginFlows
    /\ settingsFlows = InitSettingsFlows

\* The callback side starts with the singleton either never built or built by
\* an earlier initiation request.
Init ==
    /\ samlMiddleware \in {0, 1}
    /\ constructions = samlMiddleware
    /\ InitRequests
    /\ fn = NoCall

\* The process has just started: nothing is built.
InitEngine ==
    /\ samlMiddleware = 0
    /\ constructions = 0
    /\ InitRequests
    /\ fn = NoCall

----------------------------------------------------------------------------
\* The router hands a request to a handler in a new goroutine.  Slots are
\* taken in order.
Serve(r, k, c) ==
    /\ kind[r] = "none"
    /\ \A q \in Requests : q < r => kind[q] # "none"
    /\ kind' = [kind EXCEPT ![r] = k]
    /\ pc' = [pc EXCEPT ![r] = "start"]
    /\ ctx' = [ctx EXCEPT ![r] = IF k = "handleCallback" THEN c ELSE "b1"]
    /\ stage' = [stage EXCEPT ![r] = IF k = "handleCallback" THEN "AwaitingCallback"
                                     ELSE "none"]
    /\ UNCHANGED <<engineVars, mine, m, sawUnset, raced, used, resp, ran, vc, token, storeVars, reqSession, fn>>

\* continuity.Manager.Pause: a self-service flow binds a continuation token
\* to the browser context before it sends the browser to the IDP.
Pause(c, p) ==
    /\ token' = [token EXCEPT ![c] = [state |-> "valid", flow_id |-> p.flow_id,
                                      traits |-> p.traits, uses |-> 0]]
    /\ UNCHANGED <<engineVars, reqVars, storeVars, fn>>

\* The browser context presents a container whose signature does not verify.
Tamper(c) ==
    /\ token[c].state = "valid"
    /\ token' = [token EXCEPT ![c] = [AbsentToken EXCEPT !.state = "corrupted"]]
    /\ UNCHANGED <<engineVars, reqVars, storeVars, fn>>

----------------------------------------------------------------------------
\* package saml of strategy.go: the lazily built singleton.

\* `if samlMiddleware == nil` of submitMetadata and loginWithIdp, and the call
\* of instantiateMiddleware it guards.
CheckMiddleware(r) ==
    /\ pc[r] = "start"
    /\ kind[r] \in {"submitMetadata", "loginWithIdp"}
    /\ IF samlMiddleware = 0
       THEN /\ sawUnset' = [sawUnset EXCEPT ![r] = TRUE]
            /\ constructions' = constructions + 1
            /\ mine' = [mine EXCEPT ![r] = constructions + 1]
            /\ pc' = [pc EXCEPT ![r] = "instantiate"]
       ELSE /\ pc' = [pc EXCEPT ![r] = "use"]
            /\ UNCHANGED <<sawUnset, constructions, mine>>
    /\ UNCHANGED <<samlMiddleware, kind, ctx, m, raced, used, resp, stage, ran, vc,
                   token, storeVars, reqSession, fn>>

\* instantiateMiddleware that assigns the global before its fallible steps.
instantiateMiddleware_PublishesFirst(r) ==
    /\ pc[r] = "instantiate"
    /\ \E ok \in BOOLEAN :
         /\ samlMiddleware' = mine[r]
         /\ raced' = [q \in Requests |->
                        raced[q] \/ (ok /\ q # r /\ pc[q] \notin {"idle", "done", "panic"})]
         /\ resp' = [resp EXCEPT ![r] =
                       IF ~ok /\ kind[r] = "loginWithIdp"
                       THEN Append(@, Write("SelfServiceErrorManager", NilFlow,
                                            ErrConstruction))
                       ELSE @]
         /\ ran' = [ran EXCEPT ![r] =
                      Append(@, IF ok THEN "constructed" ELSE "construction failed")]
    /\ pc' = [pc EXCEPT ![r] = "use"]
    /\ UNCHANGED <<constructions, kind, ctx, mine, m, sawUnset, used, stage, vc,
                   token, storeVars, reqSession, fn>>

\* Handler.instantiateMiddleware runs to its end: every early `return err`
\* leaves the global untouched, the last statement publishes the new engine.
\* Its outcome is noted in ran.  submitMetadata drops the error; loginWithIdp forwards it and goes on.
instantiateMiddleware(r) ==
    /\ pc[r] = "instantiate"
    /\ \E ok \in BOOLEAN :
         /\ samlMiddleware' = IF ok THEN mine[r] ELSE samlMiddleware
         /\ raced' = [q \in Requests |->
                        raced[q] \/ (ok /\ q # r /\ pc[q] \notin {"idle", "done", "panic"})]
         /\ resp' = [resp EXCEPT ![r] =
                       IF ~ok /\ kind[r] = "loginWithIdp"
                       THEN Append(@, Write("SelfServiceErrorManager", NilFlow,
                                            ErrConstruction))
                       ELSE @]
         /\ ran' = [ran EXCEPT ![r] =
                      Append(@, IF ok THEN "constructed" ELSE "construction failed")]
    /\ pc' = [pc EXCEPT ![r] = "use"]
    /\ UNCHANGED <<constructions, kind, ctx, mine, m, sawUnset, used, stage, vc,
                   token, storeVars, reqSession, fn>>

\* A method call on the engine behind handle h: a nil handle panics.
PcAfterCall(h) == IF h = 0 THEN "panic" ELSE "done"

\* What request r may see of the engine behind the global handle.  The handle
\* is written and read with no synchronisation: a goroutine that was running
\* when another one published the engine has no happens-before edge to the
\* field writes that preceded the publication.
Views(r) ==
    IF raced[r] /\ samlMiddleware # 0 /\ samlMiddleware # mine[r]
    THEN BOOLEAN ELSE {TRUE}

\* Handler.submitMetadata, after the check: samlMiddleware.ServeMetadata(w, r).
submitMetadata(r) ==
    /\ pc[r] = "use"
    /\ kind[r] = "submitMetadata"
    /\ \E whole \in Views(r) :
         used' = [used EXCEPT ![r] = Append(@, Call("ServeMetadata", samlMiddleware, whole))]
    /\ resp' = [resp EXCEPT ![r] =
                  IF samlMiddleware = 0 THEN @
                  ELSE Append(@, Write("engine", NilFlow, NoErr))]
    /\ pc' = [pc EXCEPT ![r] = PcAfterCall(samlMiddleware)]
    /\ UNCHANGED <<engineVars, kind, ctx, mine, m, sawUnset, raced, stage, ran, vc, token,
                   storeVars, reqSession, fn>>

\* Handler.loginWithIdp of package saml in strategy.go, after the check: the
\* session lookup and its three branches.
loginWithIdp(r) ==
    /\ pc[r] = "use"
    /\ kind[r] = "loginWithIdp"
    /\ \E s \in RequestSessions :
         LET fs == FetchFromRequest(s) IN
         /\ reqSession' = [reqSession EXCEPT ![r] = s]
         /\ IF fs.err # NoErr
            THEN IF fs.err = ErrNoActiveSessionFound
                 THEN /\ \E whole \in Views(r) :
                           used' = [used EXCEPT ![r] =
                                      Append(@, Call("HandleStartAuthFlow", samlMiddleware,
                                                     whole))]
                      /\ resp' = [resp EXCEPT ![r] =
                                    IF samlMiddleware = 0 THEN @
                                    ELSE Append(@, Write("engine", NilFlow, NoErr))]
                      /\ pc' = [pc EXCEPT ![r] = PcAfterCall(samlMiddleware)]
                 ELSE /\ resp' = [resp EXCEPT ![r] =
                                    Append(@, Write("http.Redirect", NilFlow, NoErr))]
                      /\ pc' = [pc EXCEPT ![r] = "done"]
                      /\ UNCHANGED used
            ELSE /\ resp' = [resp EXCEPT ![r] =
                               Append(@, Write("SelfServiceErrorManager", NilFlow, fs.err))]
                 /\ pc' = [pc EXCEPT ![r] = "done"]
                 /\ UNCHANGED used
    /\ UNCHANGED <<engineVars, kind, ctx, mine, m, sawUnset, raced, stage, ran, vc, token,
                   storeVars, fn>>

----------------------------------------------------------------------------
\* package strategy of strategy.go: the callback dispatcher.

\* GetMiddleware: the global handle, or an error when it is nil.
GetMiddleware == [mw |-> samlMiddleware,
                  err |-> IF samlMiddleware = 0 THEN "MiddleWare is null" ELSE NoErr]

\* handleCallback, `m := *samlflow.GetMiddleware()`: the engine is copied
\* through the returned pointer, the error is not looked at; a nil pointer
\* panics.
handleCallback_get(r) ==
    /\ pc[r] = "start"
    /\ kind[r] = "handleCallback"
    /\ \E whole \in Views(r) :
         used' = [used EXCEPT ![r] = Append(@, Call("copy", GetMiddleware.mw, whole))]
    /\ IF GetMiddleware.mw = 0
       THEN /\ pc' = [pc EXCEPT ![r] = "panic"]
            /\ UNCHANGED m
       ELSE /\ m' = [m EXCEPT ![r] = GetMiddleware.mw]
            /\ pc' = [pc EXCEPT ![r] = "getAttributes"]
    /\ UNCHANGED <<engineVars, kind, ctx, mine, sawUnset, raced, resp, stage, ran, vc, token,
                   storeVars, reqSession, fn>>

\* Strategy.getAttributesFromAssertion and the branch of handleCallback on its
\* error.  parsed: ServiceProvider.ParseResponse accepted the response.
getAttributesFromAssertion(r) ==
    /\ pc[r] = "getAttributes"
    /\ used' = [used EXCEPT ![r] = Append(@, Call("ParseResponse", m[r], Last(@).whole))]
    /\ \E parsed \in BOOLEAN :
         IF ~parsed
         THEN /\ resp' = [resp EXCEPT ![r] =
                            Append(Append(@, Write("engine.OnError", NilFlow, ErrProtocol)),
                                   forwardError(NilFlow, ErrProtocol))]
              /\ ran' = [ran EXCEPT ![r] = Append(Append(@, "parse"), "parse failed")]
              /\ stage' = [stage EXCEPT ![r] = "Errored"]
              /\ pc' = [pc EXCEPT ![r] = "done"]
         ELSE /\ ran' = [ran EXCEPT ![r] = Append(Append(@, "parse"), "extract")]
              /\ stage' = [stage EXCEPT ![r] = "AssertionParsed"]
              /\ pc' = [pc EXCEPT ![r] = "claims"]
              /\ UNCHANGED resp
    /\ UNCHANGED <<engineVars, kind, ctx, mine, m, sawUnset, raced, vc, token, storeVars, reqSession, fn>>

\* The claims step without the `return` after the forwarded error.
handleCallback_claims_NoReturn(r) ==
    /\ pc[r] = "claims"
    /\ \E claimsOk \in BOOLEAN :
         /\ resp' = [resp EXCEPT ![r] =
                       IF claimsOk THEN @
                       ELSE Append(@, [by |-> "LoginFlowErrorHandler", flow |-> NilFlow,
                                       err |-> ErrClaimsMapping])]
         /\ stage' = [stage EXCEPT ![r] = IF claimsOk THEN "ClaimsMapped" ELSE "Errored"]
    /\ ran' = [ran EXCEPT ![r] = Append(Append(@, "provider"), "claims")]
    /\ pc' = [pc EXCEPT ![r] = "process"]
    /\ UNCHANGED <<engineVars, kind, ctx, mine, m, sawUnset, raced, used, vc, token, storeVars, reqSession, fn>>

\* handleCallback, s.provider(...) and provider.Claims(...), each with its
\* error branch.
handleCallback_claims(r) ==
    /\ pc[r] = "claims"
    /\ \E providerOk \in BOOLEAN, claimsOk \in BOOLEAN :
         IF ~providerOk
         THEN /\ resp' = [resp EXCEPT ![r] =
                            Append(@, forwardError(NilFlow, ErrConfiguration))]
              /\ ran' = [ran EXCEPT ![r] = Append(@, "provider")]
              /\ stage' = [stage EXCEPT ![r] = "Errored"]
              /\ pc' = [pc EXCEPT ![r] = "done"]
         ELSE IF ~claimsOk
         THEN /\ resp' = [resp EXCEPT ![r] =
                            Append(@, forwardError(NilFlow, ErrClaimsMapping))]
              /\ ran' = [ran EXCEPT ![r] = Append(Append(@, "provider"), "claims")]
              /\ stage' = [stage EXCEPT ![r] = "Errored"]
              /\ pc' = [pc EXCEPT ![r] = "done"]
         ELSE /\ ran' = [ran EXCEPT ![r] = Append(Append(@, "provider"), "claims")]
              /\ stage' = [stage EXCEPT ![r] = "ClaimsMapped"]
              /\ pc' = [pc EXCEPT ![r] = "process"]
              /\ UNCHANGED resp
    /\ UNCHANGED <<engineVars, kind, ctx, mine, m, sawUnset, raced, used, vc, token, storeVars, reqSession, fn>>

\* Strategy.processLoginOrRegister: the continuation token is consumed and the
\* flow resolved (validateCallback), then the completion of that flow is
\* attempted.  It returns (ff, err); ff is nil (NilFlow) when no flow was
\* resolved or the flow completed.
processLoginOrRegister(tok, q, s, completes) ==
    LET v == validateCallback(tok, q, s) IN
    IF v.err # NoErr THEN [ff |-> v.flow, err |-> v.err, v |-> v]
    ELSE IF completes THEN [ff |-> NilFlow, err |-> NoErr, v |-> v]
    ELSE [ff |-> v.flow, err |-> ErrCompletion, v |-> v]

\* handleCallback from the call of processLoginOrRegister to its end:
\*   if ff, err := ...; err != nil {
\*       if ff != nil { forwardError(*ff); return }
\*       forwardError(*ff)            -- ff is nil here: *ff panics
\*   }
handleCallback_process(r) ==
    /\ pc[r] = "process"
    /\ \E q \in Queries, s \in RequestSessions, completes \in BOOLEAN :
         LET tok == token[ctx[r]]
             res == processLoginOrRegister(tok, q, s, completes)
         IN
         /\ token' = [token EXCEPT ![ctx[r]] = AfterContinue(tok)]
         /\ vc' = [vc EXCEPT ![r] = [called |-> TRUE, seen |-> Seen(tok),
                                     flow |-> res.v.flow, cntnr |-> res.v.cntnr,
                                     err |-> res.v.err, probes |-> res.v.probes]]
         /\ ran' = [ran EXCEPT ![r] = Append(@, "process")]
         /\ IF res.err = NoErr
            THEN /\ resp' = [resp EXCEPT ![r] =
                               Append(@, Write("completion", res.v.flow, NoErr))]
                 /\ stage' = [stage EXCEPT ![r] = "Completed"]
                 /\ pc' = [pc EXCEPT ![r] = "done"]
            ELSE IF res.ff.type # "nil"
            THEN /\ resp' = [resp EXCEPT ![r] = Append(@, forwardError(res.ff, res.err))]
                 /\ stage' = [stage EXCEPT ![r] = "Errored"]
                 /\ pc' = [pc EXCEPT ![r] = "done"]
            ELSE /\ stage' = [stage EXCEPT ![r] = "Errored"]
                 /\ pc' = [pc EXCEPT ![r] = "panic"]
                 /\ UNCHANGED resp
    /\ UNCHANGED <<engineVars, kind, ctx, mine, m, sawUnset, raced, used, storeVars, reqSession, fn>>

----------------------------------------------------------------------------
\* selfservice/flow/saml/handler.go: the handler that holds its own engine.

\* Handler.loginWithIdp of handler.go: one of three branches on the session
\* lookup, then OnError unconditionally.
flow_loginWithIdp(r) ==
    /\ pc[r] = "start"
    /\ kind[r] = "flow_loginWithIdp"
    /\ \E s \in RequestSessions :
         LET fs == FetchFromRequest(s)
             first == IF fs.err = ErrNoActiveSessionFound
                      THEN <<Write("engine", NilFlow, NoErr)>>
                      ELSE IF fs.err # NoErr THEN <<>>
                      ELSE <<Write("http.Redirect", NilFlow, NoErr)>>
         IN
         /\ used' = [used EXCEPT ![r] =
                       IF fs.err = ErrNoActiveSessionFound
                       THEN <<Call("HandleStartAuthFlow", HandlerMiddleware, TRUE),
                              Call("OnError", HandlerMiddleware, TRUE)>>
                       ELSE <<Call("OnError", HandlerMiddleware, TRUE)>>]
         /\ resp' = [resp EXCEPT ![r] =
                       Append(first, Write("engine.OnError", NilFlow, fs.err))]
         /\ reqSession' = [reqSession EXCEPT ![r] = s]
    /\ pc' = [pc EXCEPT ![r] = "done"]
    /\ UNCHANGED <<engineVars, kind, ctx, mine, m, sawUnset, raced, stage, ran, vc, token,
                   storeVars, fn>>

\* Handler.serveAcs of handler.go: OnError on a parse error, then
\* CreateSessionFromAssertion in every case.
flow_serveAcs(r) ==
    /\ pc[r] = "start"
    /\ kind[r] = "flow_serveAcs"
    /\ \E parsed \in BOOLEAN :
         /\ used' = [used EXCEPT ![r] =
                       IF parsed
                       THEN <<Call("ParseResponse", HandlerMiddleware, TRUE),
                              Call("CreateSessionFromAssertion", HandlerMiddleware, TRUE)>>
                       ELSE <<Call("ParseResponse", HandlerMiddleware, TRUE),
                              Call("OnError", HandlerMiddleware, TRUE),
                              Call("CreateSessionFromAssertion", HandlerMiddleware, TRUE)>>]
         /\ ran' = [ran EXCEPT ![r] = IF parsed THEN <<"parse", "createSession">>
                                     ELSE <<"parse", "parse failed", "createSession">>]
         /\ resp' = [resp EXCEPT ![r] =
                       IF parsed THEN <<Write("engine", NilFlow, NoErr)>>
                       ELSE <<Write("engine.OnError", NilFlow, ErrProtocol),
                              Write("engine", NilFlow, NoErr)>>]
    /\ pc' = [pc EXCEPT ![r] = "done"]
    /\ UNCHANGED <<engineVars, kind, ctx, mine, m, sawUnset, raced, stage, vc, token, storeVars, reqSession, fn>>

----------------------------------------------------------------------------
\* The callback side: callbacks of both handlers, and the continuation tokens.
Next ==
    \/ \E r \in Requests, k \in DispatchKinds, c \in Contexts : Serve(r, k, c)
    \/ \E c \in Initiators, p \in Payloads : Pause(c, p)
    \/ \E c \in Contexts : Tamper(c)
    \/ \E r \in Requests : handleCallback_get(r)
    \/ \E r \in Requests : getAttributesFromAssertion(r)
    \/ \E r \in Requests : handleCallback_claims(r)
    \/ \E r \in Requests : handleCallback_process(r)
    \/ \E r \in Requests : flow_serveAcs(r)

Spec == Init /\ [][Next]_vars

\* The singleton's side: metadata, initiation and callback requests racing on
\* the global handle from process start.
NextEngine ==
    \/ \E r \in Requests, k \in EngineKinds : Serve(r, k, "b1")
    \/ \E r \in Requests : CheckMiddleware(r)
    \/ \E r \in Requests : instantiateMiddleware(r)
    \/ \E r \in Requests : submitMetadata(r)
    \/ \E r \in Requests : loginWithIdp(r)
    \/ \E r \in Requests : flow_loginWithIdp(r)
    \/ \E r \in Requests : handleCallback_get(r)
    \/ \E r \in Requests : getAttributesFromAssertion(r)
    \/ \E r \in Requests : handleCallback_claims(r)
    \/ \E r \in Requests : handleCallback_process(r)

SpecEngine == InitEngine /\ [][NextEngine]_vars

----------------------------------------------------------------------------
\* Properties.

Callbacks == {r \in Requests : kind[r] = "handleCallback"}
Finished(r) == pc[r] \in {"done", "panic"}
Constructing == {r \in Requests : pc[r] = "instantiate"}
HandlesUsed(r) == {used[r][i].h : i \in DOMAIN used[r]}

\* C1: of the requests that reach the metadata or initiation handler while the
\* engine handle is unset, at most one is ever inside instantiateMiddleware,
\* and all of them operate on the same engine.
C1_SingleConstruction ==
    /\ Cardinality(Constructing) <= 1
    /\ \A r1, r2 \in Requests :
         sawUnset[r1] /\ sawUnset[r2] =>
             Cardinality(HandlesUsed(r1) \cup HandlesUsed(r2)) <= 1

\* C2: no handler invokes an engine operation, or copies the engine, through
\* a handle that is unset or through which it sees a partly built engine.
C2_EngineNeverUnset ==
    \A r \in Requests :
        \A i \in DOMAIN used[r] : used[r][i].h # 0 /\ used[r][i].whole

\* C3: a stored continuation token is handed out exactly once: the consume
\* that finds it returns the stored flow id and traits, no container is
\* consumed twice, and a consume that finds it already consumed fails with
\* the correlation error.
C3_ConsumeExactlyOnce ==
    /\ \A c \in Contexts : token[c].uses <= 1
    /\ \A r \in Requests :
         vc[r].called =>
             /\ vc[r].seen.state = "valid" =>
                    /\ vc[r].err # ErrCorrelation
                    /\ vc[r].cntnr = MkCntnr(vc[r].seen.flow_id, vc[r].seen.traits)
             /\ vc[r].seen.state = "consumed" => vc[r].err = ErrCorrelation

\* Two callbacks of one browser context: the first got the payload, the
\* second found the container consumed.
C3_Witness ==
    \E r1, r2 \in Requests :
        /\ r1 # r2 /\ ctx[r1] = ctx[r2]
        /\ vc[r1].called /\ vc[r1].seen.state = "valid"
        /\ vc[r1].cntnr = MkCntnr("f1", "{email}")
        /\ vc[r2].called /\ vc[r2].seen.state = "consumed"
        /\ vc[r2].err = ErrCorrelation

\* C4: when the continuation token is absent, corrupted or already consumed,
\* validateCallback returns the correlation error with a nil flow and a nil
\* container, and has probed no flow store.
C4_FailsClosed ==
    \A r \in Requests :
        vc[r].called /\ vc[r].seen.state \in {"absent", "corrupted", "consumed"} =>
            /\ vc[r].err = ErrCorrelation
            /\ vc[r].flow = NilFlow
            /\ vc[r].cntnr = NilCntnr
            /\ vc[r].probes = <<>>

\* A callback of the browser that never initiated, and one that presented a
\* corrupted container.
C4_Witness ==
    \E r1, r2 \in Requests :
        /\ vc[r1].called /\ ctx[r1] = "b2" /\ vc[r1].seen.state = "absent"
        /\ vc[r2].called /\ vc[r2].seen.state = "corrupted"

\* The dispatcher's transitions.
StageEdges ==
    {<<"AwaitingCallback", "AssertionParsed">>, <<"AwaitingCallback", "Errored">>,
     <<"AssertionParsed", "ClaimsMapped">>, <<"AssertionParsed", "Errored">>,
     <<"ClaimsMapped", "Completed">>, <<"ClaimsMapped", "Errored">>}

IsPrefix(a, b) == Len(a) <= Len(b) /\ a = SubSeq(b, 1, Len(a))

\* The steps of a callback in order, and the run that stops at a failed parse.
StepOrder == <<"parse", "extract", "provider", "claims", "process">>
Ran(r, step) == \E i \in DOMAIN ran[r] : ran[r][i] = step

\* C5, on one step of one callback request: the stage moves along the
\* dispatcher's edges only; parsing starts from AwaitingCallback, claims
\* mapping from AssertionParsed, completion from ClaimsMapped; no step is
\* skipped or repeated; nothing runs after Completed or Errored.
C5_Step(r) ==
    /\ stage'[r] # stage[r] => <<stage[r], stage'[r]>> \in StageEdges
    /\ ran'[r] # ran[r] =>
          /\ IsPrefix(ran[r], ran'[r])
          /\ \/ IsPrefix(ran'[r], StepOrder)
             \/ ran'[r] = <<"parse", "parse failed">>
          /\ stage[r] = CASE Len(ran[r]) = 0 -> "AwaitingCallback"
                          [] Len(ran[r]) = 2 -> "AssertionParsed"
                          [] OTHER -> "ClaimsMapped"
    /\ stage[r] \in {"Completed", "Errored"} =>
          /\ stage'[r] = stage[r] /\ ran'[r] = ran[r] /\ resp'[r] = resp[r]
          /\ used'[r] = used[r] /\ vc'[r] = vc[r] /\ pc'[r] = pc[r]

\* C5: every callback request moves through the dispatcher stages in order.
C5_StageOrder == [][\A r \in Callbacks : C5_Step(r)]_vars

\* A callback that went through every stage and completed, and one that
\* stopped at a claims-mapping error.
C5_Witness ==
    \E r1, r2 \in Callbacks :
        /\ stage[r1] = "Completed" /\ ran[r1] = StepOrder
        /\ stage[r2] = "Errored" /\ ran[r2] = <<"parse", "extract", "provider", "claims">>

EarlyErrors == {ErrProtocol, ErrConfiguration, ErrClaimsMapping}

\* C6: an error raised in handleCallback before the continuation token is
\* consumed is forwarded to the login error handler with no flow; a flow is
\* attached to a response only after the token was consumed.
C6_EarlyErrorsFlowAgnostic ==
    \A r \in Callbacks :
        /\ stage[r] = "Errored" /\ ~vc[r].called =>
              /\ Len(resp[r]) >= 1
              /\ Last(resp[r]).by = "LoginFlowErrorHandler"
              /\ Last(resp[r]).flow = NilFlow
              /\ Last(resp[r]).err \in EarlyErrors
        /\ \A i \in DOMAIN resp[r] :
              resp[r][i].flow # NilFlow =>
                  vc[r].called /\ vc[r].seen.state = "valid"

\* A callback that failed at the parse and one that failed at the provider
\* configuration.
C6_Witness ==
    \E r1, r2 \in Callbacks :
        /\ stage[r1] = "Errored" /\ ~vc[r1].called
        /\ resp[r1] = <<Write("engine.OnError", NilFlow, ErrProtocol),
                        Write("LoginFlowErrorHandler", NilFlow, ErrProtocol)>>
        /\ stage[r2] = "Errored" /\ ~vc[r2].called
        /\ resp[r2] = <<Write("LoginFlowErrorHandler", NilFlow, ErrConfiguration)>>

\* C7: when parse-response failed, the request makes no extraction, no claims
\* mapping and no session from the assertion.
C7_OnlyVerifiedAssertions ==
    \A r \in Requests :
        Ran(r, "parse failed") =>
            ~Ran(r, "extract") /\ ~Ran(r, "claims") /\ ~Ran(r, "createSession")

\* C8: a handler invocation that has ended wrote exactly one response.
C8_ExactlyOneResponse ==
    \A r \in Requests : Finished(r) => Len(resp[r]) = 1

\* The error handler of a flow's own type.
ErrorHandlerOf(f) ==
    CASE f.type = "login" -> "LoginFlowErrorHandler"
      [] f.type = "registration" -> "RegistrationFlowErrorHandler"
      [] f.type = "settings" -> "SettingsFlowErrorHandler"
      [] OTHER -> "none"

\* C9: when completion fails with a resolved flow, the error is rendered by
\* the error handler of that flow's type, with the flow attached.
C9_FlowTypedError ==
    \A r \in Callbacks :
        vc[r].called /\ vc[r].flow # NilFlow /\ stage[r] = "Errored" =>
            /\ pc[r] = "done"
            /\ Len(resp[r]) >= 1
            /\ Last(resp[r]).flow = vc[r].flow
            /\ Last(resp[r]).by = ErrorHandlerOf(vc[r].flow)

\* C10: when completion fails and no flow was resolved, the handler ends
\* normally, having forwarded the error to the login error handler with no
\* flow.
C10_NoFlowForwarded ==
    \A r \in Callbacks :
        vc[r].called /\ vc[r].flow = NilFlow /\ vc[r].err # NoErr =>
            /\ pc[r] = "done"
            /\ Len(resp[r]) >= 1
            /\ Last(resp[r]) = Write("LoginFlowErrorHandler", NilFlow, vc[r].err)

----------------------------------------------------------------------------
\* Initiation.

Initiations == {r \in Requests : kind[r] \in {"loginWithIdp", "flow_loginWithIdp"}}
InitiatedSSO(r) == \E i \in DOMAIN used[r] : used[r][i].op = "HandleStartAuthFlow"
Redirected(r) == \E i \in DOMAIN resp[r] : resp[r][i].by = "http.Redirect"

\* C11: an initiation request whose session lookup has been made starts SSO
\* exactly when the lookup found no active session, is redirected to the
\* default destination exactly when it found an active session, and does
\* neither when the lookup failed in another way.
C11_InitiationBranches ==
    \A r \in Initiations :
        reqSession[r] # NoLookup =>
            /\ InitiatedSSO(r) <=> reqSession[r] = NoSession
            /\ Redirected(r) <=> reqSession[r] \in Sessions \ {NoSession}
            /\ reqSession[r] = SessionBroken => ~InitiatedSSO(r) /\ ~Redirected(r)

----------------------------------------------------------------------------
\* Error rendering: Strategy.handleError and the UI container it rewrites.

\* A ui node: its group, its name and its value.
Node(g, n, v) == [group |-> g, name |-> n, value |-> v]
CSRFNode(t) == Node("default", "csrf_token", t)
TraitNode(v) == Node("oidc", "traits.email", v)

\* AddProvider: one more submit node, labelled "continue", for the provider.
AddProvider(nodes, provider) == Append(nodes, Node("saml", "provider", provider))

\* container.SetCSRF: the csrf node is replaced where it stands, or appended.
SetCSRF(nodes, t) ==
    IF \E i \in DOMAIN nodes : nodes[i].name = "csrf_token"
    THEN [i \in DOMAIN nodes |-> IF nodes[i].name = "csrf_token" THEN CSRFNode(t)
                                 ELSE nodes[i]]
    ELSE Append(nodes, CSRFNode(t))

\* The csrf token a container carries, "" when it has none.
CSRFOf(nodes) ==
    IF \E i \in DOMAIN nodes : nodes[i].name = "csrf_token"
    THEN nodes[CHOOSE i \in DOMAIN nodes : nodes[i].name = "csrf_token"].value
    ELSE ""

\* GenerateCSRFToken: a token that was not issued before.
CSRFTokens == {"csrf-a", "csrf-b", "csrf-c"}
GenerateCSRFToken(issued) == CHOOSE t \in CSRFTokens : t \notin issued

\* container.NodesFromJSONSchema on the default identity schema: one empty
\* input per trait, or an error when the schema cannot be loaded.
ErrSchema == "schema: unable to load"
NodesFromJSONSchema(schemaOk) ==
    IF schemaOk THEN [nodes |-> <<TraitNode("")>>, err |-> NoErr]
    ELSE [nodes |-> <<>>, err |-> ErrSchema]

\* The staged traits a token can carry, and the value each holds for a trait.
StagedTraits == {NoTraits, "{email}", "{}"}
TraitValue(traits) == IF traits = "{email}" THEN "user@example.org" ELSE ""

\* container.UpdateNodeValuesFromJSON(traits, "traits", group): the inputs of
\* the group take the values the JSON holds for them.
UpdateNodeValuesFromJSON(nodes, traits) ==
    [i \in DOMAIN nodes |->
        IF nodes[i].group = "oidc" /\ TraitValue(traits) # ""
        THEN [nodes[i] EXCEPT !.value = TraitValue(traits)]
        ELSE nodes[i]]

\* handleError that resets the nodes of every flow.
handleError_ResetsAll(f, ui, provider, traits, err, issued, schemaOk) ==
    [ui |-> <<>>, err |-> err]

\* handleError that keeps the registration flow's nodes.
handleError_KeepsNodes(f, ui, provider, traits, err, issued, schemaOk) ==
    IF f.type = "registration"
    THEN [ui |-> AddProvider(SetCSRF(ui, GenerateCSRFToken(issued)), provider),
          err |-> err]
    ELSE [ui |-> ui, err |-> err]

\* Strategy.handleError on flow f whose container holds ui: the container
\* afterwards and the error returned.
handleError(f, ui, provider, traits, err, issued, schemaOk) ==
    IF f.type = "login" THEN [ui |-> ui, err |-> err]
    ELSE IF f.type = "registration"
    THEN LET reset == <<>>
             withCSRF == SetCSRF(reset, GenerateCSRFToken(issued))
             withProvider == AddProvider(withCSRF, provider)
             schema == NodesFromJSONSchema(schemaOk)
         IN
         IF traits # NoTraits
         THEN IF schema.err # NoErr
              THEN [ui |-> withProvider, err |-> schema.err]
              ELSE [ui |-> UpdateNodeValuesFromJSON(withProvider \o schema.nodes, traits),
                    err |-> err]
         ELSE [ui |-> withProvider, err |-> err]
    ELSE IF f.type = "settings" THEN [ui |-> ui, err |-> err]
    ELSE [ui |-> ui, err |-> err]

\* The containers a flow can hold when the error is rendered: with or without
\* a csrf node, a provider button and a filled trait input.
Opt(present, node) == IF present THEN <<node>> ELSE <<>>
PriorUIs ==
    {Opt(c # "", CSRFNode(c)) \o Opt(p # "", Node("saml", "provider", p))
        \o Opt(t, TraitNode("old@example.org")) :
        c \in {"", "csrf-a", "csrf-b"}, p \in {"", "idp-1", "idp-2"}, t \in BOOLEAN}

ErrorFlows == {NilFlow, MkFlow("registration", 1, "browser", FALSE, NoSession),
               MkFlow("login", 2, "browser", FALSE, NoSession),
               MkFlow("settings", 3, "browser", FALSE, "alice")}

\* The calls of handleError: a flow of any type, in any of these states.
handleError_args ==
    {a \in [f : ErrorFlows, ui : PriorUIs, provider : {"idp-1"}, traits : StagedTraits,
            err : {ErrClaimsMapping, ErrCompletion},
            issued : SUBSET {"csrf-a", "csrf-b"}, schemaOk : BOOLEAN] :
        CSRFOf(a.ui) \in a.issued \cup {""}}

\* handleError runs on the arguments the state holds.
handleError_call ==
    /\ fn.op = "handleError"
    /\ ~fn.done
    /\ fn' = [fn EXCEPT !.done = TRUE,
                        !.out = handleError(fn.arg.f, fn.arg.ui, fn.arg.provider,
                                            fn.arg.traits, fn.arg.err, fn.arg.issued,
                                            fn.arg.schemaOk)]
    /\ UNCHANGED <<engineVars, reqVars, token, storeVars>>

\* The engine exists; one call of handleError is about to be made.
InitUI ==
    /\ samlMiddleware = 1
    /\ constructions = 1
    /\ InitRequests
    /\ fn \in {[op |-> "handleError", arg |-> a, out |-> <<>>, done |-> FALSE] :
                 a \in handleError_args}

NextUI == handleError_call

SpecUI == InitUI /\ [][NextUI]_vars

Indices(nodes, name) == {i \in DOMAIN nodes : nodes[i].name = name}

\* C12: after handleError on a registration flow the container holds, whatever
\* it held before: one csrf node whose token is fresh, one "continue" node
\* of the provider, and otherwise only trait inputs, which are there only
\* when staged traits were given.
C12_RegistrationRerender ==
    fn.op = "handleError" /\ fn.done /\ fn.arg.f.type = "registration" =>
        LET out == fn.out.ui IN
        /\ Cardinality(Indices(out, "csrf_token")) = 1
        /\ CSRFOf(out) \in CSRFTokens
        /\ CSRFOf(out) # CSRFOf(fn.arg.ui)
        /\ Cardinality(Indices(out, "provider")) = 1
        /\ \A i \in Indices(out, "provider") : out[i].value = fn.arg.provider
        /\ \A i \in DOMAIN out :
               out[i].name \notin {"csrf_token", "provider"} =>
                   /\ fn.arg.traits # NoTraits
                   /\ out[i] = TraitNode(TraitValue(fn.arg.traits))
        /\ Len(out) <= 3

\* A registration flow that held a stale button and a stale input was
\* re-rendered, once with staged traits and once without.
C12_Witness ==
    /\ fn.op = "handleError"
    /\ fn.done
    /\ fn.arg.f.type = "registration"
    /\ Len(fn.arg.ui) = 3
    /\ fn.arg.traits = "{email}"
    /\ fn.out.ui = <<CSRFNode(CSRFOf(fn.out.ui)), Node("saml", "provider", "idp-1"),
                     TraitNode("user@example.org")>>

\* C13: for a login flow, a settings flow or no flow, handleError returns the
\* error it was given and leaves the container as it was.
C13_OtherFlowsUntouched ==
    fn.op = "handleError" /\ fn.done /\ fn.arg.f.type \in {"login", "settings", "nil"} =>
        /\ fn.out.err = fn.arg.err
        /\ fn.out.ui = fn.arg.ui

C13_Witness ==
    /\ fn.op = "handleError"
    /\ fn.done
    /\ fn.arg.f.type = "settings"
    /\ Len(fn.arg.ui) = 3
    /\ fn.arg.traits = "{email}"
    /\ fn.out.ui = fn.arg.ui

----------------------------------------------------------------------------
\* Flow resolution: validateFlow and validateCallback called on stores, tokens,
\* queries and sessions of every shape.

StoreTypes == {"registration", "login", "settings"}

\* A store of flows of type t that holds flow 1, or nothing.
StoreOf(t, held, mode, expired, owner) ==
    [i \in FlowIDs |-> IF held /\ i = 1 THEN MkFlow(t, 1, mode, expired, owner)
                       ELSE NilFlow]

\* The flow ids validateFlow is called with: none, a stored one, an unknown one.
CallFlowIDs == {ZeroUUID, 1, 2}

\* The containers Continue can find, and the queries of the callback.
CallTokens ==
    {AbsentToken, [AbsentToken EXCEPT !.state = "consumed", !.uses = 1]}
        \cup {[state |-> "valid", flow_id |-> f, traits |-> NoTraits, uses |-> 0] :
                 f \in {"f1", "f2", ""}}
CallQueries ==
    Queries \cup {[error |-> "server_error", error_description |-> ""],
                  [error |-> "", error_description |-> "ignored"]}

InitFlow ==
    /\ samlMiddleware = 1
    /\ constructions = 1
    /\ InitSlots
    /\ \E held \in SUBSET StoreTypes, mode \in {"browser", "api"}, expired \in BOOLEAN,
          owner \in {"alice", "bob"} :
          /\ regFlows = StoreOf("registration", "registration" \in held, mode, expired,
                                NoSession)
          /\ loginFlows = StoreOf("login", "login" \in held, mode, expired, NoSession)
          /\ settingsFlows = StoreOf("settings", "settings" \in held, mode, expired, owner)
    /\ \/ /\ token = [c \in Contexts |-> AbsentToken]
          /\ fn \in {[op |-> "validateFlow", arg |-> a, out |-> <<>>, done |-> FALSE] :
                       a \in [rid : CallFlowIDs, s : RequestSessions]}
       \/ \E tok \in CallTokens :
            /\ token = [c \in Contexts |-> IF c = "b1" THEN tok ELSE AbsentToken]
            /\ fn \in {[op |-> "validateCallback", arg |-> a, out |-> <<>>,
                         done |-> FALSE] :
                          a \in [tok : {tok}, q : CallQueries, s : RequestSessions]}

\* validateFlow runs on the arguments the state holds.
validateFlow_call ==
    /\ fn.op = "validateFlow"
    /\ ~fn.done
    /\ fn' = [fn EXCEPT !.done = TRUE, !.out = validateFlow(fn.arg.rid, fn.arg.s)]
    /\ UNCHANGED <<engineVars, reqVars, token, storeVars>>

\* validateCallback runs on the container of context b1.
validateCallback_call ==
    /\ fn.op = "validateCallback"
    /\ ~fn.done
    /\ fn' = [fn EXCEPT !.done = TRUE,
                        !.out = validateCallback(token["b1"], fn.arg.q, fn.arg.s)]
    /\ token' = [token EXCEPT !["b1"] = AfterContinue(@)]
    /\ UNCHANGED <<engineVars, reqVars, storeVars>>

NextFlow == validateFlow_call \/ validateCallback_call

SpecFlow == InitFlow /\ [][NextFlow]_vars

\* What a store holds under an id, and the stores that hold it.
StoreFlow(t, rid) ==
    CASE t = "registration" -> GetRegistrationFlow(rid).flow
      [] t = "login" -> GetLoginFlow(rid).flow
      [] t = "settings" -> GetSettingsFlow(rid).flow
Holders(rid) == {t \in StoreTypes : StoreFlow(t, rid).ptr}

ValidateFlowDone == fn.op = "validateFlow" /\ fn.done
ValidateCallbackDone == fn.op = "validateCallback" /\ fn.done

\* The errors that say the request has no session matching the flow.
SessionMismatchErrors == {ErrNoActiveSessionFound, ErrSessionMismatch}

\* validateFlow resolved the id to a flow of the settings store.
ResolvedSettings ==
    /\ ValidateFlowDone
    /\ fn.out.flow.type = "settings"
    /\ fn.out.flow.ptr

\* C14: validating a settings flow on a request with no active session fails
\* with a session-mismatch error, whatever the flow's execution mode, expiry
\* and owner.
C14_SettingsNeedsSession ==
    ResolvedSettings /\ fn.arg.s = NoSession =>
        fn.out.err \in SessionMismatchErrors

\* C14, amended: validating a browser-mode settings flow on a request with no
\* active session fails with the error of the session lookup, whatever the
\* flow's expiry and owner; a settings flow of another mode fails with
\* ErrAPIFlowNotSupported and the session is not looked up.
C14_BrowserSettingsNeedsSession ==
    ResolvedSettings /\ fn.arg.s = NoSession =>
        IF fn.out.flow.mode = "browser"
        THEN /\ fn.out.err = ErrNoActiveSessionFound
             /\ Last(fn.out.probes) = "session"
        ELSE /\ fn.out.err = ErrAPIFlowNotSupported
             /\ Last(fn.out.probes) = "settings"

\* An expired browser-mode settings flow was validated without a session.
C14_Witness ==
    /\ ResolvedSettings
    /\ fn.arg.s = NoSession
    /\ fn.out.flow.mode = "browser"
    /\ fn.out.flow.expired
    /\ fn.out.err = ErrNoActiveSessionFound

Range(q) == {q[i] : i \in DOMAIN q}

\* The id a call is about: validateFlow's argument, or the one parsed from
\* the container validateCallback consumed.
CalledID ==
    IF fn.op = "validateFlow" THEN fn.arg.rid ELSE ParseUUID(fn.arg.tok.flow_id)

\* The call reached validateFlow: directly, or through a container that
\* Continue accepted.
ReachedValidateFlow ==
    \/ ValidateFlowDone
    \/ ValidateCallbackDone /\ fn.arg.tok.state = "valid"

\* C15: a flow of any of the three types whose execution mode is not browser
\* is rejected with ErrAPIFlowNotSupported, also when it has expired and
\* without a session lookup, and validateCallback hands no flow back for it.
C15_APIFlowRejected ==
    /\ ReachedValidateFlow
    /\ ~x_IsZeroUUID(CalledID)
    /\ Holders(CalledID) # {}
    /\ \A t \in Holders(CalledID) : StoreFlow(t, CalledID).mode # "browser"
    => /\ fn.out.err = ErrAPIFlowNotSupported
       /\ fn.out.err \notin {ErrBadRequest, ErrFlowExpired, ErrNotFound, NoErr}
                               \cup SessionMismatchErrors
       /\ "session" \notin Range(fn.out.probes)
       /\ ValidateCallbackDone => fn.out.flow = NilFlow

\* An expired API-mode settings flow was validated on a request without a
\* session, and rejected for its mode.
C15_Witness ==
    /\ ValidateFlowDone
    /\ Holders(fn.arg.rid) = {"settings"}
    /\ fn.out.flow.mode = "api"
    /\ fn.out.flow.expired
    /\ fn.arg.s = NoSession
    /\ fn.out.err = ErrAPIFlowNotSupported

\* A flow passes its own validity check: it has not expired and, for a
\* settings flow, the request's session is its owner's.
PassesValid(f, s) ==
    IF f.type = "settings"
    THEN FetchFromRequest(s).err = NoErr
         /\ SettingsFlow_Valid(f, FetchFromRequest(s).sess) = NoErr
    ELSE Flow_Valid(f) = NoErr

\* C16: a non-zero id that exactly one store holds resolves to the flow of
\* that store, whichever store it is, and without error when the flow is
\* browser-mode and valid.
C16_UniqueHolderResolved ==
    /\ ValidateFlowDone
    /\ ~x_IsZeroUUID(fn.arg.rid)
    /\ Cardinality(Holders(fn.arg.rid)) = 1
    => \A t \in Holders(fn.arg.rid) :
          /\ fn.out.flow = StoreFlow(t, fn.arg.rid)
          /\ fn.out.flow.type = t
          /\ fn.out.flow.mode = "browser" /\ PassesValid(fn.out.flow, fn.arg.s)
                 => fn.out.err = NoErr

\* A valid browser-mode flow held by the login store alone was resolved, after
\* the miss in the registration store.
C16_Witness ==
    /\ ValidateFlowDone
    /\ Holders(fn.arg.rid) = {"login"}
    /\ fn.out.flow.type = "login"
    /\ fn.out.err = NoErr
    /\ fn.out.probes = <<"registration", "login">>

\* C17: a non-zero id that no store holds is answered, after the lookups in
\* the registration, login and settings stores in this order, with the
\* error of the settings store and no usable flow.
C17_UnknownIDLookupError ==
    /\ ValidateFlowDone
    /\ ~x_IsZeroUUID(fn.arg.rid)
    /\ Holders(fn.arg.rid) = {}
    => /\ fn.out.err = GetSettingsFlow(fn.arg.rid).err
       /\ fn.out.err # NoErr
       /\ fn.out.probes = <<"registration", "login", "settings">>
       /\ ~fn.out.flow.ptr

\* An id that none of the three stores holds was looked up.
C17_Witness ==
    /\ ValidateFlowDone
    /\ fn.arg.rid = 1
    /\ Holders(1) = {}
    /\ fn.out.err = ErrNotFound
    /\ Len(fn.out.probes) = 3

\* C18: the zero id, and the empty flow id of a container, is rejected with
\* ErrBadRequest with no store lookup and no session lookup made.
C18_ZeroIDRejectedFirst ==
    ReachedValidateFlow /\ x_IsZeroUUID(CalledID) =>
        /\ fn.out.err = ErrBadRequest
        /\ fn.out.probes = <<>>
        /\ fn.out.flow = NilFlow

\* A container with an empty flow id was consumed on a request with a session
\* while the stores hold flows.
C18_Witness ==
    /\ ValidateCallbackDone
    /\ fn.arg.tok.state = "valid"
    /\ fn.arg.tok.flow_id = ""
    /\ fn.arg.s = "alice"
    /\ Holders(1) = StoreTypes
    /\ fn.out.err = ErrBadRequest

\* The store validateFlow finds an id in: the first holder in probe order.
FirstHolder(rid) ==
    IF "registration" \in Holders(rid) THEN "registration"
    ELSE IF "login" \in Holders(rid) THEN "login"
    ELSE "settings"

\* The id of the consumed container resolves to a browser-mode flow that
\* passes its validity check on this request.
FlowResolvesAndValidates ==
    /\ ~x_IsZeroUUID(CalledID)
    /\ Holders(CalledID) # {}
    /\ StoreFlow(FirstHolder(CalledID), CalledID).mode = "browser"
    /\ PassesValid(StoreFlow(FirstHolder(CalledID), CalledID), fn.arg.s)

\* The messages of the errors built from the queries of the calls.
ProviderErrorMessage(q) ==
    CASE q.error = "access_denied" ->
           "Unable to complete OpenID Connect flow because the OpenID Provider returned error \"access_denied\": user cancelled"
      [] q.error = "server_error" ->
           "Unable to complete OpenID Connect flow because the OpenID Provider returned error \"server_error\": "
      [] OTHER -> NoErr
ProviderErrorMessages == {ProviderErrorMessage(q) : q \in CallQueries} \ {NoErr}

\* C19: when the container is valid, its flow resolves and validates and the
\* query has a non-empty error parameter, validateCallback returns the flow
\* and the container with an error whose message holds the error code and
\* the description; when the flow fails validation that failure is returned
\* instead, with no flow, whatever the query says.
C19_ProviderErrorAfterFlow ==
    ValidateCallbackDone /\ fn.arg.tok.state = "valid" =>
        IF FlowResolvesAndValidates
        THEN fn.arg.q.error # "" =>
                 /\ fn.out.flow = StoreFlow(FirstHolder(CalledID), CalledID)
                 /\ fn.out.cntnr = MkCntnr(fn.arg.tok.flow_id, fn.arg.tok.traits)
                 /\ fn.out.err = ProviderErrorMessage(fn.arg.q)
        ELSE /\ fn.out.flow = NilFlow
             /\ fn.out.err \notin ProviderErrorMessages \cup {NoErr}

\* The provider reported access_denied on the callback of a valid settings
\* flow of the session's owner.
C19_Witness ==
    /\ ValidateCallbackDone
    /\ fn.arg.tok.state = "valid"
    /\ fn.arg.q.error = "access_denied"
    /\ fn.out.flow.type = "settings"
    /\ fn.out.cntnr.ptr
    /\ fn.out.err = ProviderErrorMessage(fn.arg.q)

----------------------------------------------------------------------------
\* Attribute extraction: the loops of getAttributesFromAssertion over a
\* verified assertion.

MaxStatements == 2
MaxAttributes == 2

\* saml.Attribute: FriendlyName, Name and the values of its AttributeValues.
Attribute(friendly, name, values) ==
    [FriendlyName |-> friendly, Name |-> name, Values |-> values]

\* The attributes an assertion can carry: named by friendly name, by raw name
\* or by both, with no value, one value, or several, repeated or not.
Attributes ==
    {Attribute(n[1], n[2], v) :
        n \in {<<"", "email">>, <<"email", "urn:oid:0.9.2342.19200300.100.1.3">>,
               <<"", "uid">>},
        v \in {<<>>, <<"a">>, <<"b", "a">>, <<"a", "a">>}}

\* claimName that always takes the raw name.
claimName_RawName(attr) == attr.Name

\* claimName := attr.FriendlyName; if claimName == "" { claimName = attr.Name }
claimName(attr) == IF attr.FriendlyName = "" THEN attr.Name ELSE attr.FriendlyName

\* attributes[claimName] = append(attributes[claimName], value.Value)
AppendValue(attrs, name, value) ==
    IF name \in DOMAIN attrs THEN [attrs EXCEPT ![name] = Append(@, value)]
    ELSE attrs @@ (name :> <<value>>)

\* for _, value := range attr.Values
RECURSIVE RangeValues(_, _, _)
RangeValues(attrs, name, values) ==
    IF values = <<>> THEN attrs
    ELSE RangeValues(AppendValue(attrs, name, Head(values)), name, Tail(values))

\* for _, attr := range attributeStatement.Attributes
RECURSIVE RangeAttributes(_, _)
RangeAttributes(attrs, statement) ==
    IF statement = <<>> THEN attrs
    ELSE RangeAttributes(RangeValues(attrs, claimName(Head(statement)),
                                     Head(statement).Values),
                         Tail(statement))

\* for _, attributeStatement := range assertion.AttributeStatements
RECURSIVE RangeStatements(_, _)
RangeStatements(attrs, statements) ==
    IF statements = <<>> THEN attrs
    ELSE RangeStatements(RangeAttributes(attrs, Head(statements)), Tail(statements))

\* attributes := map[string][]string{} ... return attributes, nil
attributes(assertion) == RangeStatements(<<>>, assertion)

\* The attribute lists of at most MaxAttributes attributes.
AttributeLists == UNION {[1..n -> Attributes] : n \in 0..MaxAttributes}

\* The list flat cut into k statements at the positions b.
Cut(flat, k, b) == [i \in 1..k |-> SubSeq(flat, b[i - 1] + 1, b[i])]

\* A verified assertion of at most MaxStatements statements, empty ones
\* included, was returned by ParseResponse.
InitAttributes ==
    /\ samlMiddleware = 1
    /\ constructions = 1
    /\ InitRequests
    /\ \E flat \in AttributeLists, k \in 0..MaxStatements :
         \E b \in [0..k -> 0..Len(flat)] :
            /\ b[0] = 0
            /\ b[k] = Len(flat)
            /\ \A i \in 1..k : b[i - 1] <= b[i]
            /\ fn = [op |-> "attributes", arg |-> Cut(flat, k, b), out |-> <<>>,
                     done |-> FALSE]

\* The loops run on the assertion the state holds.
attributes_call ==
    /\ fn.op = "attributes"
    /\ ~fn.done
    /\ fn' = [fn EXCEPT !.done = TRUE, !.out = attributes(fn.arg)]
    /\ UNCHANGED <<engineVars, reqVars, token, storeVars>>

NextAttributes == attributes_call

SpecAttributes == InitAttributes /\ [][NextAttributes]_vars

\* The effective name of an attribute: its friendly name, or its raw name
\* when it has no friendly name.
EffectiveName(attr) == IF attr.FriendlyName # "" THEN attr.FriendlyName ELSE attr.Name

\* The <<effective name, value>> pairs of an assertion in encounter order.
RECURSIVE PairsOfValues(_, _)
PairsOfValues(name, values) ==
    IF values = <<>> THEN <<>>
    ELSE <<[key |-> name, value |-> Head(values)]>> \o PairsOfValues(name, Tail(values))
RECURSIVE PairsOfStatement(_)
PairsOfStatement(statement) ==
    IF statement = <<>> THEN <<>>
    ELSE PairsOfValues(EffectiveName(Head(statement)), Head(statement).Values)
             \o PairsOfStatement(Tail(statement))
RECURSIVE PairsOf(_)
PairsOf(assertion) ==
    IF assertion = <<>> THEN <<>>
    ELSE PairsOfStatement(Head(assertion)) \o PairsOf(Tail(assertion))

\* The values paired with key k, in the order of the pairs.
ValuesUnder(pairs, k) ==
    LET Under(p) == p.key = k
        sel == SelectSeq(pairs, Under)
    IN [i \in DOMAIN sel |-> sel[i].value]

AttributeNames ==
    {a.FriendlyName : a \in Attributes} \cup {a.Name : a \in Attributes}
Lookup(attrs, k) == IF k \in DOMAIN attrs THEN attrs[k] ELSE <<>>

\* C20: the extracted map gives, for every key, the values of all attributes
\* whose effective name is the key, in encounter order over the statements
\* and attributes, repeated values kept; it has no other key, and an
\* assertion without statements gives the empty map.
C20_AttributesByEffectiveName ==
    fn.op = "attributes" /\ fn.done =>
        /\ \A k \in AttributeNames :
               Lookup(fn.out, k) = ValuesUnder(PairsOf(fn.arg), k)
        /\ DOMAIN fn.out \subseteq AttributeNames
        /\ fn.arg = <<>> => DOMAIN fn.out = {}

\* Two statements name the same key once by friendly name and once by raw
\* name, with a repeated value: the values are merged in encounter order.
C20_Witness ==
    /\ fn.op = "attributes"
    /\ fn.done
    /\ Len(fn.arg) = 2
    /\ Len(fn.arg[1]) = 1
    /\ Len(fn.arg[2]) = 1
    /\ fn.arg[1][1].FriendlyName = "email"
    /\ fn.arg[2][1].FriendlyName = ""
    /\ DOMAIN fn.out = {"email"}
    /\ fn.out["email"] = <<"b", "a", "a", "a">>

----------------------------------------------------------------------------
\* Accepted request ids: the list both callback handlers pass to
\* ServiceProvider.ParseResponse.

MaxTracked == 2

\* samlsp.TrackedRequest: the id of an AuthnRequest this browser started.
TrackedRequest(id) == [SAMLRequestID |-> id]
TrackedIDs == {"id-1", "id-2"}

\* RequestTracker.GetTrackedRequests(r): the requests tracked for the browser.
TrackedLists ==
    UNION {[1..n -> {TrackedRequest(id) : id \in TrackedIDs}] : n \in 0..MaxTracked}

\* The posted SAML response: whether it verifies, and its InResponseTo.
Responses == [verifies : BOOLEAN, InResponseTo : TrackedIDs \cup {"", "id-9"}]

\* The nil *saml.Assertion.
NilAssertion == [ptr |-> FALSE, InResponseTo |-> ""]

\* ServiceProvider.ParseResponse(r, possibleRequestIDs): the assertion of a
\* response that verifies and answers one of the ids, an error otherwise.
ParseResponse(response, ids) ==
    IF response.verifies /\ \E i \in DOMAIN ids : ids[i] = response.InResponseTo
    THEN [assertion |-> [ptr |-> TRUE, InResponseTo |-> response.InResponseTo],
          err |-> NoErr]
    ELSE [assertion |-> NilAssertion, err |-> ErrProtocol]

\* The list with the empty id in it whatever AllowIDPInitiated says.
possibleRequestIDs_AlwaysEmptyID(allowIDPInitiated, trackedRequests) ==
    <<"">> \o [i \in DOMAIN trackedRequests |-> trackedRequests[i].SAMLRequestID]

\* possibleRequestIDs as getAttributesFromAssertion and serveAcs build it:
\* "" when AllowIDPInitiated, then the id of every tracked request.
possibleRequestIDs(allowIDPInitiated, trackedRequests) ==
    (IF allowIDPInitiated THEN <<"">> ELSE <<>>)
        \o [i \in DOMAIN trackedRequests |-> trackedRequests[i].SAMLRequestID]

\* A callback reaches a handler whose engine has AllowIDPInitiated as drawn.
InitRequestIDs ==
    /\ samlMiddleware = 1
    /\ constructions = 1
    /\ InitRequests
    /\ fn \in {[op |-> h, arg |-> a, out |-> <<>>, done |-> FALSE] :
                 h \in {"getAttributesFromAssertion", "serveAcs"},
                 a \in [AllowIDPInitiated : BOOLEAN, trackedRequests : TrackedLists,
                        response : Responses]}

\* Strategy.getAttributesFromAssertion up to the return on the parse error:
\* the ids passed, and the assertion and error it goes on with.
getAttributesFromAssertion_call ==
    /\ fn.op = "getAttributesFromAssertion"
    /\ ~fn.done
    /\ LET ids == possibleRequestIDs(fn.arg.AllowIDPInitiated, fn.arg.trackedRequests)
           parsed == ParseResponse(fn.arg.response, ids)
       IN fn' = [fn EXCEPT !.done = TRUE,
                           !.out = [ids |-> ids, assertion |-> parsed.assertion,
                                    err |-> parsed.err,
                                    next |-> IF parsed.err # NoErr THEN "return"
                                             ELSE "extract"]]
    /\ UNCHANGED <<engineVars, reqVars, token, storeVars>>

\* Handler.serveAcs of handler.go: the ids passed, and the assertion it hands
\* to CreateSessionFromAssertion, which is nil after a parse error.
flow_serveAcs_call ==
    /\ fn.op = "serveAcs"
    /\ ~fn.done
    /\ LET ids == possibleRequestIDs(fn.arg.AllowIDPInitiated, fn.arg.trackedRequests)
           parsed == ParseResponse(fn.arg.response, ids)
       IN fn' = [fn EXCEPT !.done = TRUE,
                           !.out = [ids |-> ids, assertion |-> parsed.assertion,
                                    err |-> parsed.err,
                                    next |-> "CreateSessionFromAssertion"]]
    /\ UNCHANGED <<engineVars, reqVars, token, storeVars>>

NextRequestIDs == getAttributesFromAssertion_call \/ flow_serveAcs_call

SpecRequestIDs == InitRequestIDs /\ [][NextRequestIDs]_vars

ParseDone == fn.op \in {"getAttributesFromAssertion", "serveAcs"} /\ fn.done

\* C21: the ids passed to ParseResponse are the ids of the browser's tracked
\* requests, and the empty id exactly when AllowIDPInitiated is set; when it
\* is not set, a response with the empty id is rejected and no assertion of
\* it is handed on.
C21_AcceptedRequestIDs ==
    ParseDone =>
        /\ Range(fn.out.ids) \ {""} =
               {fn.arg.trackedRequests[i].SAMLRequestID : i \in DOMAIN fn.arg.trackedRequests}
        /\ "" \in Range(fn.out.ids) <=> fn.arg.AllowIDPInitiated
        /\ ~fn.arg.AllowIDPInitiated /\ fn.arg.response.InResponseTo = "" =>
               /\ fn.out.err # NoErr
               /\ fn.out.assertion = NilAssertion

\* A response that verifies and answers no request reached serveAcs, with
\* IDP-initiated flows not allowed and no request tracked, and was rejected.
C21_Witness ==
    /\ ParseDone
    /\ fn.op = "serveAcs"
    /\ ~fn.arg.AllowIDPInitiated
    /\ fn.arg.trackedRequests = <<>>
    /\ fn.arg.response.verifies
    /\ fn.arg.response.InResponseTo = ""
    /\ fn.out.ids = <<>>
    /\ fn.out.err = ErrProtocol

----------------------------------------------------------------------------
\* Failed construction.

Constructed(r) == Ran(r, "constructed")
ConstructionFailed(r) == Ran(r, "construction failed")

\* The step of request r that ends its instantiateMiddleware with an error.
FailedConstructionStep(r) ==
    /\ pc[r] = "instantiate"
    /\ pc'[r] # "instantiate"
    /\ ConstructionFailed(r)'

\* The check of the handle by a metadata or initiation request r.
CheckStep(r) ==
    /\ kind[r] \in {"submitMetadata", "loginWithIdp"}
    /\ pc[r] = "start"
    /\ pc'[r] # "start"

\* C22: a construction that fails leaves the engine handle as it was; while
\* no construction has succeeded the handle is unset; and a metadata or
\* initiation request that finds it unset attempts the construction.
C22_FailedConstructionLeavesUnset ==
    /\ []((\A r \in Requests : ~Constructed(r)) => samlMiddleware = 0)
    /\ [][\A r \in Requests :
             /\ FailedConstructionStep(r) => samlMiddleware' = samlMiddleware
             /\ CheckStep(r) /\ samlMiddleware = 0 => pc'[r] = "instantiate"]_vars

\* After the failed construction of one request, with the handle still
\* unset, another request is constructing again.
C22_Witness ==
    \E r1, r2 \in Requests :
        /\ ConstructionFailed(r1)
        /\ Finished(r1)
        /\ samlMiddleware = 0
        /\ pc[r2] = "instantiate"
        /\ mine[r2] > mine[r1]

----------------------------------------------------------------------------
\* The provider entry: the one instantiateMiddleware builds the engine from,
\* and the one Strategy.provider maps the claims with.

MaxProviders == 3

\* ConfigurationCollection.SAMLProviders: the entries of the configuration.
ProviderEntries == {"idp-a", "idp-b", "idp-c"}
ProviderLists == UNION {[1..n -> ProviderEntries] : n \in 0..MaxProviders}

\* An index expression on an empty slice panics.
IndexPanic == "panic: index out of range"
NoEntry == "none"

\* instantiateMiddleware: c.SAMLProviders[len(c.SAMLProviders)-1]
instantiateMiddleware_entry(c) == IF Len(c) = 0 THEN IndexPanic ELSE c[Len(c)]

\* Strategy.provider: c.SAMLProviders[0]
Strategy_provider(c) == IF Len(c) = 0 THEN IndexPanic ELSE c[1]

\* The configuration is loaded; no engine is built and no claims are mapped.
InitProviders ==
    /\ samlMiddleware = 0
    /\ constructions = 0
    /\ InitRequests
    /\ fn \in {[op |-> "providers", arg |-> c,
                 out |-> [engine |-> NoEntry, claims |-> NoEntry], done |-> FALSE] :
                 c \in ProviderLists}

\* An initiation or metadata request builds the engine from the configuration.
instantiateMiddleware_call ==
    /\ fn.op = "providers"
    /\ fn.out.engine = NoEntry
    /\ fn' = [fn EXCEPT !.out.engine = instantiateMiddleware_entry(fn.arg)]
    /\ UNCHANGED <<engineVars, reqVars, token, storeVars>>

\* A callback on the built engine fetches the provider that maps the claims.
Strategy_provider_call ==
    /\ fn.op = "providers"
    /\ fn.out.engine \notin {NoEntry, IndexPanic}
    /\ ~fn.done
    /\ fn' = [fn EXCEPT !.out.claims = Strategy_provider(fn.arg), !.done = TRUE]
    /\ UNCHANGED <<engineVars, reqVars, token, storeVars>>

NextProviders == instantiateMiddleware_call \/ Strategy_provider_call

SpecProviders == InitProviders /\ [][NextProviders]_vars

\* C23: for a configuration with at least one provider entry, the entry whose
\* rules map the claims of a callback is the entry the engine was built from.
C23_SameProviderEntry ==
    fn.op = "providers" /\ fn.done /\ Len(fn.arg) >= 1 =>
        fn.out.claims = fn.out.engine

====
